---- MODULE Spec2Model ----
(***************************************************************************)
(* Model of src/app.js: the submit handler of the farm form (an async      *)
(* function with two suspension points, the fetch and the body parse),     *)
(* displayResults and resetForm, running on the browser's single-threaded  *)
(* event loop.  Every action is one run-to-completion segment of a         *)
(* handler: from an event or a promise settlement to the next await or to  *)
(* the handler's return.                                                   *)
(***************************************************************************)
EXTENDS Integers, Sequences, FiniteSets, TLC

(* ------------------------------ bounds --------------------------------- *)

\* Largest number of submit events in one behaviour.
MaxSubmissions == 2

\* Longest string typed into a field in the payload specification.
MaxLen == 3

(* ------------------------- strings and numbers ------------------------- *)

\* A string is a sequence of characters.  A character is written as a
\* one-character string, or as "U+hhhh", its code point, where the module's
\* character set has no way to write it.
DigitSeq == <<"0", "1", "2", "3", "4", "5", "6", "7", "8", "9">>

Digits == {DigitSeq[i] : i \in 1..10}

DigitVal(c) == (CHOOSE i \in 1..10 : DigitSeq[i] = c) - 1

\* The white space and line terminators parseFloat skips (StrWhiteSpaceChar):
\* TAB, VT, FF, SP, NBSP, ZWNBSP, the Unicode space separators, LF, CR, LS, PS.
WhiteSpace ==
    {" ", "\t", "\n", "\r", "\f", "U+000B", "U+00A0", "U+FEFF", "U+1680",
     "U+2000", "U+2001", "U+2002", "U+2003", "U+2004", "U+2005", "U+2006",
     "U+2007", "U+2008", "U+2009", "U+200A", "U+2028", "U+2029", "U+202F",
     "U+205F", "U+3000"}

\* The characters the model types into fields.
Chars == {"0", "1", ".", "-", "+", "e", "x", " ", "\t"}

RECURSIVE StringsUpTo(_)
StringsUpTo(n) ==
    IF n = 0 THEN {<<>>}
    ELSE LET shorter == StringsUpTo(n - 1)
         IN  shorter \cup {Append(s, c) : s \in shorter, c \in Chars}

\* Field texts beyond the short strings: the Infinity literal and its near
\* misses, exponents at the ends of the double range, other white space.
SpecialInputs ==
    { <<"I", "n", "f", "i", "n", "i", "t", "y">>,
      <<"-", "I", "n", "f", "i", "n", "i", "t", "y">>,
      <<"+", "I", "n", "f", "i", "n", "i", "t", "y", "1">>,
      <<"I", "n", "f", "i", "n", "i", "t">>,
      <<"i", "n", "f", "i", "n", "i", "t", "y">>,
      <<"1", "e", "9", "9", "9">>,
      <<"1", ".", "8", "e", "3", "0", "8">>,
      <<"1", ".", "7", "e", "3", "0", "8">>,
      <<"-", "2", "e", "-", "3", "2", "4">>,
      <<"3", "e", "-", "3", "2", "4">>,
      <<"2", "e", "-", "3", "0", "8">>,
      <<"3", "e", "-", "3", "0", "8">>,
      <<"\n", "U+00A0", "1">>,
      <<"U+2028", "\r", "-", ".", "5", "U+3000">>,
      <<"1", "2", ".", "5", "0", "k", "g">> }

\* A JavaScript string value.
JSString(s) == [type |-> "string", str |-> s]

\* The JavaScript number NaN.
NaN == [type |-> "number", nan |-> TRUE]

\* The JavaScript numbers Infinity and -Infinity.
Infinity(neg) == [type |-> "number", nan |-> FALSE, inf |-> TRUE, neg |-> neg]

InfinityLiteral == <<"I", "n", "f", "i", "n", "i", "t", "y">>

RECURSIVE Normalize(_, _, _)
\* The number (-1)^neg * m * 10^e; a number has one representation: m has no
\* trailing decimal zero and zero has exponent 0 (the sign of zero is kept,
\* as in IEEE 754).
Normalize(neg, m, e) ==
    IF m = 0 THEN [type |-> "number", nan |-> FALSE, neg |-> neg, m |-> 0, e |-> 0]
    ELSE IF m % 10 = 0 THEN Normalize(neg, m \div 10, e + 1)
    ELSE [type |-> "number", nan |-> FALSE, neg |-> neg, m |-> m, e |-> e]

RECURSIVE Pow10(_)
Pow10(n) == IF n = 0 THEN 1 ELSE 10 * Pow10(n - 1)

RECURSIVE NumDigits(_)
\* The number of decimal digits of m >= 1.
NumDigits(m) == IF m < 10 THEN 1 ELSE 1 + NumDigits(m \div 10)

\* The first n digits (n <= 9) of a nine-digit number.
Lead(nine, n) == nine \div Pow10(9 - n)

\* The leading digits of three bounds of the double range:
\* 2^1024 - 2^970 = 1.79769313...e308, from which a value rounds to Infinity;
\* 2^-1075 = 2.47032822...e-324, below which a value rounds to zero;
\* 2^-1022 = 2.22507385...e-308, the least normal double.
OverflowLead == 179769313

UnderflowLead == 247032822

MinNormalLead == 222507385

\* The double nearest to the decimal m * 10^e, for m of at most nine digits
\* with no trailing zero.  A normal double of so few digits is named by the
\* same decimal; a subnormal one is not and is marked (its digits are those
\* of the decimal before rounding).
ToDouble(neg, m, e) ==
    LET nd  == NumDigits(m)
        mag == nd + e
    IN  IF mag > 309 \/ (mag = 309 /\ m > Lead(OverflowLead, nd))
        THEN Infinity(neg)
        ELSE IF mag < -323 \/ (mag = -323 /\ m <= Lead(UnderflowLead, nd))
        THEN Normalize(neg, 0, 0)
        ELSE IF mag < -307 \/ (mag = -307 /\ m <= Lead(MinNormalLead, nd))
        THEN [type |-> "number", nan |-> FALSE, neg |-> neg, m |-> m, e |-> e,
              subnormal |-> TRUE]
        ELSE [type |-> "number", nan |-> FALSE, neg |-> neg, m |-> m, e |-> e]

\* The double nearest to (-1)^neg * mant * 10^exp.
DecimalToDouble(neg, mant, exp) ==
    LET n == Normalize(neg, mant, exp)
    IN  IF n.m = 0 THEN n ELSE ToDouble(n.neg, n.m, n.e)

RECURSIVE SkipWhite(_)
SkipWhite(s) ==
    IF s # <<>> /\ Head(s) \in WhiteSpace THEN SkipWhite(Tail(s)) ELSE s

RECURSIVE DigitPrefixLen(_)
\* The number of leading decimal digits of s.
DigitPrefixLen(s) ==
    IF s # <<>> /\ Head(s) \in Digits THEN 1 + DigitPrefixLen(Tail(s)) ELSE 0

RECURSIVE DigitsValue(_)
\* The natural number written by a sequence of digits (0 for none).
DigitsValue(ds) ==
    IF ds = <<>> THEN 0
    ELSE 10 * DigitsValue(SubSeq(ds, 1, Len(ds) - 1)) + DigitVal(ds[Len(ds)])

Drop(s, n) == SubSeq(s, n + 1, Len(s))

StartsWith(s, p) == Len(s) >= Len(p) /\ SubSeq(s, 1, Len(p)) = p

\* parseFloat with the exponent part ignored: a plausible slip.
parseFloatNoExponent(s) ==
    LET t       == SkipWhite(s)
        hasSign == t # <<>> /\ Head(t) \in {"+", "-"}
        neg     == hasSign /\ Head(t) = "-"
        u       == IF hasSign THEN Tail(t) ELSE t
        ni      == DigitPrefixLen(u)
        r1      == Drop(u, ni)
        hasDot  == r1 # <<>> /\ Head(r1) = "."
        nf      == IF hasDot THEN DigitPrefixLen(Tail(r1)) ELSE 0
        mant    == DigitsValue(SubSeq(u, 1, ni) \o SubSeq(r1, 2, nf + 1))
    IN  IF StartsWith(u, InfinityLiteral) THEN Infinity(neg)
        ELSE IF ni = 0 /\ nf = 0 THEN NaN
        ELSE DecimalToDouble(neg, mant, 0 - nf)

\* The global parseFloat: skip leading white space, take the longest prefix
\* that is a decimal literal (sign, then Infinity or digits, fraction and
\* exponent), ignore what follows it, and give NaN when there is no such
\* prefix; the literal's value is rounded to a double.
parseFloat(s) ==
    LET t       == SkipWhite(s)
        hasSign == t # <<>> /\ Head(t) \in {"+", "-"}
        neg     == hasSign /\ Head(t) = "-"
        u       == IF hasSign THEN Tail(t) ELSE t
        ni      == DigitPrefixLen(u)
        r1      == Drop(u, ni)
        hasDot  == r1 # <<>> /\ Head(r1) = "."
        nf      == IF hasDot THEN DigitPrefixLen(Tail(r1)) ELSE 0
        r2      == IF hasDot THEN Drop(r1, nf + 1) ELSE r1
        hasE    == r2 # <<>> /\ Head(r2) \in {"e", "E"}
        x1      == IF hasE THEN Tail(r2) ELSE <<>>
        eSign   == x1 # <<>> /\ Head(x1) \in {"+", "-"}
        x2      == IF eSign THEN Tail(x1) ELSE x1
        ne      == DigitPrefixLen(x2)
        expAbs  == DigitsValue(SubSeq(x2, 1, ne))
        exp     == IF ne = 0 THEN 0
                   ELSE IF eSign /\ Head(x1) = "-" THEN 0 - expAbs ELSE expAbs
        mant    == DigitsValue(SubSeq(u, 1, ni) \o SubSeq(r1, 2, nf + 1))
    IN  IF StartsWith(u, InfinityLiteral) THEN Infinity(neg)
        ELSE IF ni = 0 /\ nf = 0 THEN NaN
        ELSE DecimalToDouble(neg, mant, exp - nf)

(* ------------------------------ the form ------------------------------- *)

\* The names the handler keeps as text (app.js:12-13).
TextFields ==
    {"region", "crop_type", "irrigation_type", "fertilizer_type",
     "crop_disease_status"}

\* The form's controls in document order: FormData.entries() yields them in
\* this order.  One text field and one numeric field.
FieldOrder == <<"region", "soil_ph">>

FieldNames == {FieldOrder[i] : i \in 1..Len(FieldOrder)}

\* The name/value pairs of new FormData(form).entries().
entries(f) == [i \in 1..Len(FieldOrder) |-> <<FieldOrder[i], f[FieldOrder[i]]>>]

RECURSIVE buildPayloadFrom(_, _)
\* The loop of app.js:10-18 over the first n entries.  data starts as an
\* object literal, whose __proto__ is the accessor it inherits: assigning a
\* number or a string to data['__proto__'] adds no member.
buildPayloadFrom(es, n) ==
    IF n = 0 THEN << >>
    ELSE LET key   == es[n][1]
             value == es[n][2]
             data  == buildPayloadFrom(es, n - 1)
             v     == IF key \notin TextFields THEN parseFloat(value)
                      ELSE JSString(value)
         IN  IF key = "__proto__" THEN data ELSE (key :> v) @@ data

buildPayload(f) == buildPayloadFrom(entries(f), Len(FieldOrder))

\* JSON.stringify of one payload value: NaN and the infinities are written
\* as null, the sign of zero is dropped, a string is kept (quoted).
stringifyValue(v) ==
    IF v.type = "string" THEN v
    ELSE IF v.nan THEN [type |-> "null"]
    ELSE IF "inf" \in DOMAIN v THEN [type |-> "null"]
    ELSE IF v.m = 0 THEN Normalize(FALSE, 0, 0)
    ELSE v

\* JSON.stringify(data): the request body, member by member.
JSONstringify(data) == [k \in DOMAIN data |-> stringifyValue(data[k])]

(* --------------------------- server responses -------------------------- *)

\* The endpoint and headers of the call (app.js:26-31).
Endpoint == "/api/predict"

\* The values of a parsed body, each with its type: null, undefined (what
\* reading a missing property gives), booleans, numbers held in thousandths
\* (5678 is 5.678), strings, arrays and objects.
JSNull == [type |-> "null"]

Undefined == [type |-> "undefined"]

Bool(b) == [type |-> "boolean", bool |-> b]

Num(x) == [type |-> "number", milli |-> x]

Str(s) == [type |-> "string", text |-> s]

Arr(items) == [type |-> "array", items |-> items]

Obj(props) == [type |-> "object", props |-> props]

\* o.f for a value o that is neither null nor undefined and a name f that no
\* prototype defines: the own property, or undefined.
Get(o, f) ==
    IF o.type = "object" /\ f \in DOMAIN o.props THEN o.props[f] ELSE Undefined

\* Prediction results of the expected shape.  1005 and 2500 are decimal
\* ties, -1500 is negative.
Predictions ==
    { Obj([water_requirement_mm_per_day       |-> Num(5678),
           fertilizer_requirement_kg_per_week |-> Num(12300),
           expected_yield_kg_per_hectare      |-> Num(4500000),
           irrigation_recommendation          |-> Str("Drip irrigation"),
           fertilizer_recommendation          |-> Str("Apply nitrogen"),
           yield_optimization_tips            |-> Arr(<<Str("Tip A"), Str("Tip B")>>)]),
      Obj([water_requirement_mm_per_day       |-> Num(1005),
           fertilizer_requirement_kg_per_week |-> Num(-1500),
           expected_yield_kg_per_hectare      |-> Num(2500),
           irrigation_recommendation          |-> Str("Sprinkler"),
           fertilizer_recommendation          |-> Str("Apply potassium"),
           yield_optimization_tips            |-> Arr(<<Str("Tip C")>>)]) }

\* Prediction results that are rendered to the end although a
\* recommendation or a tip is no string: null, a number, a boolean.
LoosePredictions ==
    { Obj([water_requirement_mm_per_day       |-> Num(0),
           fertilizer_requirement_kg_per_week |-> Num(7004),
           expected_yield_kg_per_hectare      |-> Num(999600),
           irrigation_recommendation          |-> JSNull,
           fertilizer_recommendation          |-> Num(-2050),
           yield_optimization_tips            |->
               Arr(<<Str("Tip E"), JSNull, Num(7000), Bool(TRUE),
                     Arr(<<Str("a"), JSNull, Num(40)>>),
                     Obj([valueOf |-> Str("v")])>>)]) }

\* Prediction results on which the rendering throws: the tips are null, a
\* number is missing, a number is a string, a recommendation or a tip is an
\* object whose toString is no function.
PartialPredictions ==
    { Obj([water_requirement_mm_per_day       |-> Num(41),
           fertilizer_requirement_kg_per_week |-> Num(996),
           expected_yield_kg_per_hectare      |-> Num(1499),
           irrigation_recommendation          |-> Str("Furrow"),
           fertilizer_recommendation          |-> Str("Apply lime"),
           yield_optimization_tips            |-> JSNull]),
      Obj([water_requirement_mm_per_day       |-> Num(2675),
           fertilizer_requirement_kg_per_week |-> Num(-6),
           irrigation_recommendation          |-> Str("Flood"),
           yield_optimization_tips            |-> Arr(<<Str("Tip D")>>)]),
      Obj([water_requirement_mm_per_day       |-> Str("5.6"),
           fertilizer_requirement_kg_per_week |-> Num(100),
           expected_yield_kg_per_hectare      |-> Num(100),
           yield_optimization_tips            |-> Arr(<< >>)]),
      Obj([water_requirement_mm_per_day       |-> Num(3000),
           fertilizer_requirement_kg_per_week |-> Num(8345),
           expected_yield_kg_per_hectare      |-> Num(1500),
           irrigation_recommendation          |-> Obj([toString |-> Str("x")]),
           fertilizer_recommendation          |-> Str("Apply urea"),
           yield_optimization_tips            |-> Arr(<<Str("Tip F")>>)]),
      Obj([water_requirement_mm_per_day       |-> Num(3500),
           fertilizer_requirement_kg_per_week |-> Num(500),
           expected_yield_kg_per_hectare      |-> Num(500),
           irrigation_recommendation          |-> Str("Mist"),
           fertilizer_recommendation          |-> Str("Apply manure"),
           yield_optimization_tips            |->
               Arr(<<Str("Tip G"), Arr(<<Obj([toString |-> JSNull])>>),
                     Str("Tip H")>>)]) }

\* The error texts of a server-reported failure.
ServerErrors == {"bad input"}

\* The parsed bodies the handler reads: success with predictions of the
\* expected shape, with loose or partial ones, with null or with none;
\* failure with an error text, with a null error, with an error that has
\* no string conversion, or with none; the JSON values null and [].
Results ==
    {Obj([success |-> Bool(TRUE), predictions |-> p]) :
        p \in Predictions \cup LoosePredictions \cup PartialPredictions}
    \cup {Obj([success |-> Num(1000), predictions |-> JSNull]),
          Obj([success |-> Bool(TRUE)])}
    \cup {Obj([success |-> Bool(FALSE), error |-> Str(e)]) : e \in ServerErrors}
    \cup {Obj([success |-> Bool(FALSE), error |-> JSNull]),
          Obj([success |-> Num(0), error |-> Obj([toString |-> Str("x")])]),
          Obj([success |-> Str("")]),
          JSNull,
          Arr(<< >>)}

\* error.message of a rejected fetch and of a rejected response.json().
FetchErrors == {"Failed to fetch"}

ParseErrors == {"Unexpected token < in JSON at position 0"}

\* error.message of the TypeError of reading property prop of null or of
\* undefined (the engine's wording).
TypeErrorMessage(base, prop) ==
    "Cannot read properties of " \o base \o " (reading '" \o prop \o "')"

\* error.message of the TypeError of the call expr.method() on the value x
\* when only values of the type 'type' have that method ("" when the call
\* goes ahead): the method is read off null or undefined, or it is no
\* function.
CallError(x, type, expr, method) ==
    IF x.type \in {"null", "undefined"} THEN TypeErrorMessage(x.type, method)
    ELSE IF x.type # type THEN expr \o "." \o method \o " is not a function"
    ELSE ""

(* ------------------------------ rendering ------------------------------ *)

RECURSIVE PadDigits(_, _)
\* The d low decimal digits of n, with leading zeros.
PadDigits(n, d) ==
    IF d = 0 THEN "" ELSE PadDigits(n \div 10, d - 1) \o ToString(n % 10)

RECURSIVE PowMod125(_)
\* 2^k modulo 125.
PowMod125(k) == IF k = 0 THEN 1 ELSE (2 * PowMod125(k - 1)) % 125

RECURSIVE HalvingsTo1000(_)
\* The largest E with 1000 * 2^E <= a, for a >= 1000.
HalvingsTo1000(a) == IF a \div 2 >= 1000 THEN 1 + HalvingsTo1000(a \div 2) ELSE 0

RECURSIVE DoublingsTo1000(_)
\* The least k with a * 2^k >= 1000, for 1 <= a < 1000.
DoublingsTo1000(a) == IF a >= 1000 THEN 0 ELSE 1 + DoublingsTo1000(2 * a)

\* The double nearest to a/1000 (a >= 1) is not below a/1000.  With E the
\* binary exponent of a/1000, the double is round(q) * 2^(E-52) for
\* q = a * 2^(52-E) / 1000 = a * 2^(49-E) / 125; it is a/1000 itself when 125
\* divides a, above it when the remainder of a * 2^(49-E) by 125 is over
\* half of 125, below it otherwise.
DoubleNotBelow(a) ==
    LET E == IF a >= 1000 THEN HalvingsTo1000(a) ELSE 0 - DoublingsTo1000(a)
        r == ((a % 125) * PowMod125(49 - E)) % 125
    IN  r = 0 \/ r >= 63

\* Number.prototype.toFixed(d) of the double nearest to x/1000: the sign,
\* then the integer n for which n / 10^d is nearest to the double (the
\* larger n when two are as near), written with exactly d fraction digits.
toFixed(x, d) ==
    LET a      == IF x < 0 THEN 0 - x ELSE x
        scaled == a * Pow10(d)
        q      == scaled \div 1000
        rem    == scaled % 1000
        n      == IF rem > 500 \/ (rem = 500 /\ DoubleNotBelow(a)) THEN q + 1 ELSE q
    IN  (IF x < 0 THEN "-" ELSE "")
        \o ToString(n \div Pow10(d))
        \o (IF d = 0 THEN "" ELSE "." \o PadDigits(n % Pow10(d), d))

\* The text of the number x/1000: the sign, the integer part, and the
\* fraction without trailing zeros.
NumberToString(x) ==
    LET a  == IF x < 0 THEN 0 - x ELSE x
        fr == a % 1000
    IN  (IF x < 0 THEN "-" ELSE "")
        \o ToString(a \div 1000)
        \o (IF fr = 0 THEN ""
            ELSE IF fr % 100 = 0 THEN "." \o PadDigits(fr \div 100, 1)
            ELSE IF fr % 10 = 0 THEN "." \o PadDigits(fr \div 10, 2)
            ELSE "." \o PadDigits(fr, 3))

\* error.message of the TypeError of converting to a string an object that
\* has no callable toString and whose valueOf gives no primitive (the
\* engine's wording).
ConvertError == "Cannot convert object to primitive value"

RECURSIVE Converts(_)
\* The value has a string conversion.  An object of a parsed body inherits
\* toString unless it has a member of that name, which is no function; the
\* valueOf it has or inherits gives no primitive.  An array converts by
\* joining its elements, null and undefined ones left out.
Converts(v) ==
    IF v.type = "object" THEN "toString" \notin DOMAIN v.props
    ELSE IF v.type = "array"
    THEN \A k \in DOMAIN v.items :
            v.items[k].type \in {"null", "undefined"} \/ Converts(v.items[k])
    ELSE TRUE

RECURSIVE String(_)
RECURSIVE join(_)
\* The conversion to a string of a value that has one, as string
\* concatenation and the textContent setter apply it.
String(v) ==
    IF v.type = "string" THEN v.text
    ELSE IF v.type = "number" THEN NumberToString(v.milli)
    ELSE IF v.type = "boolean" THEN (IF v.bool THEN "true" ELSE "false")
    ELSE IF v.type = "array" THEN join(v.items)
    ELSE IF v.type = "object" THEN "[object Object]"
    ELSE v.type

\* Array.prototype.join(): null and undefined elements give the empty text.
join(items) ==
    IF items = << >> THEN ""
    ELSE (IF Head(items).type \in {"null", "undefined"} THEN ""
          ELSE String(Head(items)))
         \o (IF Len(items) = 1 THEN "" ELSE "," \o join(Tail(items)))

\* element.textContent = value throws: the value is neither null nor
\* undefined and has no string conversion.
textContentThrows(value) ==
    value.type \notin {"null", "undefined"} /\ ~Converts(value)

\* element.textContent = value, when it does not throw: null and undefined
\* give the empty text, every other value its string.
textContent(value) ==
    IF value.type \in {"null", "undefined"} THEN "" ELSE String(value)

\* document.createElement('li') with its textContent set (app.js:68-69).
li(tip) == [tag |-> "li", textContent |-> textContent(tip)]

RECURSIVE appendItems(_, _)
\* tips.forEach(tip => tipsList.appendChild(li)), on the children 'list':
\* the loop ends at the first tip whose text cannot be set, with the items
\* before it appended.
appendItems(list, tips) ==
    IF tips = << >> \/ textContentThrows(Head(tips)) THEN list
    ELSE appendItems(Append(list, li(Head(tips))), Tail(tips))

\* The tips list left as it is before the new items: a plausible slip.
clearTipsMissing(children) == children

\* tipsList.innerHTML = '' (app.js:65).
clearTips(children) == << >>

\* displayResults(predictions) (app.js:48-75) on the view v, statement by
\* statement: the three numbers as fixed decimals, the two recommendations,
\* the tips list emptied and refilled, the results region shown and scrolled
\* into view.  A statement that reads a property of null or undefined, calls
\* what is no function, or sets a text to a value without a string
\* conversion throws a TypeError: the statements before it have taken
\* effect, the ones after it have not.  The result is the view, whether the
\* region was shown, and the message of the error thrown ("" for none).
displayResults(p, v) ==
    LET thrown(view, message) ==
            [view |-> view, shown |-> FALSE, error |-> message]
        water    == Get(p, "water_requirement_mm_per_day")
        fert     == Get(p, "fertilizer_requirement_kg_per_week")
        yield    == Get(p, "expected_yield_kg_per_hectare")
        waterRec == Get(p, "irrigation_recommendation")
        fertRec  == Get(p, "fertilizer_recommendation")
        tips     == Get(p, "yield_optimization_tips")
        waterError == CallError(water, "number",
                          "predictions.water_requirement_mm_per_day", "toFixed")
        fertError  == CallError(fert, "number",
                          "predictions.fertilizer_requirement_kg_per_week", "toFixed")
        yieldError == CallError(yield, "number",
                          "predictions.expected_yield_kg_per_hectare", "toFixed")
        tipsError  == CallError(tips, "array",
                          "predictions.yield_optimization_tips", "forEach")
    IN  IF p.type \in {"null", "undefined"}
        THEN thrown(v, TypeErrorMessage(p.type, "water_requirement_mm_per_day"))
        ELSE IF waterError # ""
        THEN thrown(v, waterError)
        ELSE LET v1 == [v EXCEPT !.waterResult = toFixed(water.milli, 2)]
        IN  IF fertError # ""
        THEN thrown(v1, fertError)
        ELSE LET v2 == [v1 EXCEPT !.fertilizerResult = toFixed(fert.milli, 2)]
        IN  IF yieldError # ""
        THEN thrown(v2, yieldError)
        ELSE LET v3 == [v2 EXCEPT !.yieldResult = toFixed(yield.milli, 0)]
        IN  IF textContentThrows(waterRec)
        THEN thrown(v3, ConvertError)
        ELSE LET v4 == [v3 EXCEPT !.waterRec = textContent(waterRec)]
        IN  IF textContentThrows(fertRec)
        THEN thrown(v4, ConvertError)
        ELSE LET v5 == [v4 EXCEPT !.fertilizerRec = textContent(fertRec),
                                  !.tipsList = clearTips(@)]
        IN  IF tipsError # ""
        THEN thrown(v5, tipsError)
        ELSE LET v6 == [v5 EXCEPT !.tipsList = appendItems(@, tips.items)]
        IN  IF \E k \in DOMAIN tips.items : textContentThrows(tips.items[k])
        THEN thrown(v6, ConvertError)
        ELSE [view |-> v6, shown |-> TRUE, error |-> ""]

(* ------------------------------- state --------------------------------- *)

VARIABLES
    form,        \* the current value of every form control, by name
    loading,     \* style.display of #loadingIndicator
    results,     \* style.display of #results
    view,        \* the text of the result elements and the children of #tipsList
    scrolledTo,  \* the element last scrolled into view ("" for none)
    subs,        \* one record per submit event, in the order of the events
    reloaded,    \* the browser carried out the native submission
    lastTask     \* the task the event loop ran last

vars == <<form, loading, results, view, scrolledTo, subs, reloaded, lastTask>>

\* The values form.reset() restores (the value attributes of the markup).
FormDefaults == [k \in FieldNames |-> IF k = "region" THEN <<"x">> ELSE <<"1">>]

\* The values a user types into a field between events.
UserInputs == {<<"1">>, <<"x">>}

\* The text fields' values in the payload specification.
TextInputs == {<<>>, <<"1">>, <<"x", " ">>}

BlankView ==
    [waterResult |-> "", fertilizerResult |-> "", yieldResult |-> "",
     waterRec |-> "", fertilizerRec |-> "", tipsList |-> << >>]

\* The page after load.  The display of the two regions is set by the
\* markup, which is outside this file: either value is possible.
Init ==
    /\ form = FormDefaults
    /\ loading \in {"none", "block"}
    /\ results \in {"none", "block"}
    /\ view = BlankView
    /\ scrolledTo = ""
    /\ subs = << >>
    /\ reloaded = FALSE
    /\ lastTask = "load"

\* The page with arbitrary text in the fields: the inputs of the payload
\* construction.
InitPayload ==
    /\ form \in {[k \in FieldNames |-> IF k = "region" THEN t ELSE n] :
                    t \in TextInputs,
                    n \in StringsUpTo(MaxLen) \cup SpecialInputs}
    /\ loading \in {"none", "block"}
    /\ results \in {"none", "block"}
    /\ view = BlankView
    /\ scrolledTo = ""
    /\ subs = << >>
    /\ reloaded = FALSE
    /\ lastTask = "load"

(* --------------------------- the submit handler ------------------------ *)

\* A cancelable submit event as dispatched to the listener.
SubmitEvent == [type |-> "submit", defaultPrevented |-> FALSE]

\* A listener that leaves the event's default action alone: a plausible slip.
preventDefaultMissing(e) == e

\* e.preventDefault() (app.js:4).
preventDefault(e) == [e EXCEPT !.defaultPrevented = TRUE]

\* The effects a handler performs, recorded in the order it performs them.
Effect(op) == [op |-> op]

alert(prefix, text) == [op |-> "alert", message |-> <<prefix, text>>]

\* The submit listener with a request-in-flight guard: what the code lacks.
SubmitGuarded ==
    /\ ~reloaded
    /\ lastTask' = "submit"
    /\ Len(subs) < MaxSubmissions
    /\ \A i \in DOMAIN subs : subs[i].pc = "done"
    /\ \E e \in {preventDefault(SubmitEvent)}, data \in {buildPayload(form)} :
           /\ subs' = Append(subs,
                 [pc      |-> "fetch",
                  data    |-> data,
                  request |-> [url |-> Endpoint, method |-> "POST",
                               contentType |-> "application/json",
                               body |-> JSONstringify(data)],
                  result  |-> [kind |-> "none"],
                  trace   |-> (IF e.defaultPrevented
                               THEN <<Effect("preventDefault")>> ELSE << >>)
                              \o <<Effect("buildPayload"), Effect("showLoading"),
                                    Effect("hideResults"), Effect("fetch")>>])
           /\ loading' = "block"
           /\ results' = "none"
           /\ reloaded' = ~e.defaultPrevented
    /\ UNCHANGED <<form, view, scrolledTo>>

\* A submit event: the listener runs up to its first await (app.js:3-32).
\* It suppresses the default action, builds the payload, shows the loading
\* indicator, hides the results and issues the POST; the browser then
\* carries out the default action unless it was suppressed.
Submit ==
    /\ ~reloaded
    /\ lastTask' = "submit"
    /\ Len(subs) < MaxSubmissions
    /\ \E e \in {preventDefault(SubmitEvent)}, data \in {buildPayload(form)} :
           /\ subs' = Append(subs,
                 [pc      |-> "fetch",
                  data    |-> data,
                  request |-> [url |-> Endpoint, method |-> "POST",
                               contentType |-> "application/json",
                               body |-> JSONstringify(data)],
                  result  |-> [kind |-> "none"],
                  trace   |-> (IF e.defaultPrevented
                               THEN <<Effect("preventDefault")>> ELSE << >>)
                              \o <<Effect("buildPayload"), Effect("showLoading"),
                                    Effect("hideResults"), Effect("fetch")>>])
           /\ loading' = "block"
           /\ results' = "none"
           /\ reloaded' = ~e.defaultPrevented
    /\ UNCHANGED <<form, view, scrolledTo>>

\* The record of a handler that has returned: its locals are gone.
Completed(sub, result, effects) ==
    [sub EXCEPT !.pc = "done", !.data = << >>, !.request = << >>,
                !.result = result, !.trace = @ \o effects]

\* A rejected fetch handled without the finally clause: a plausible slip.
FetchRejectsNoFinally(i, m) ==
    /\ ~reloaded
    /\ lastTask' = "fetch settled"
    /\ i \in DOMAIN subs
    /\ subs[i].pc = "fetch"
    /\ subs' = [subs EXCEPT ![i] =
                  Completed(@, [kind |-> "rejected", message |-> m],
                            <<alert("Failed to get predictions: ", m)>>)]
    /\ UNCHANGED <<form, loading, results, view, scrolledTo, reloaded>>

\* The fetch of submission i rejects with error.message m: the catch clause
\* alerts, the finally clause hides the loading indicator (app.js:41-45).
FetchRejects(i, m) ==
    /\ ~reloaded
    /\ lastTask' = "fetch settled"
    /\ i \in DOMAIN subs
    /\ subs[i].pc = "fetch"
    /\ subs' = [subs EXCEPT ![i] =
                  Completed(@, [kind |-> "rejected", message |-> m],
                            <<alert("Failed to get predictions: ", m),
                              Effect("hideLoading")>>)]
    /\ loading' = "none"
    /\ UNCHANGED <<form, results, view, scrolledTo, reloaded>>

\* The fetch of submission i resolves: the handler calls response.json()
\* and awaits the parsed body (app.js:34).  The request is no longer in
\* flight and the payload is not read again.
FetchResolves(i) ==
    /\ ~reloaded
    /\ lastTask' = "fetch settled"
    /\ i \in DOMAIN subs
    /\ subs[i].pc = "fetch"
    /\ subs' = [subs EXCEPT ![i] =
                  [@ EXCEPT !.pc = "json", !.data = << >>, !.request = << >>,
                            !.trace = Append(@, Effect("json"))]]
    /\ UNCHANGED <<form, loading, results, view, scrolledTo, reloaded>>

\* response.json() of submission i rejects with error.message m: the body is
\* not JSON (app.js:41-45).
JsonRejects(i, m) ==
    /\ ~reloaded
    /\ lastTask' = "json settled"
    /\ i \in DOMAIN subs
    /\ subs[i].pc = "json"
    /\ subs' = [subs EXCEPT ![i] =
                  Completed(@, [kind |-> "unparsable", message |-> m],
                            <<alert("Failed to get predictions: ", m),
                              Effect("hideLoading")>>)]
    /\ loading' = "none"
    /\ UNCHANGED <<form, results, view, scrolledTo, reloaded>>

\* A success test that asks only whether the property exists: a plausible
\* slip.
TruthyIfPresent(value) == value.type # "undefined"

\* if (value): false, 0, the empty string, null and undefined are falsy,
\* every other value is truthy.
Truthy(value) ==
    IF value.type = "boolean" THEN value.bool
    ELSE IF value.type = "number" THEN value.milli # 0
    ELSE IF value.type = "string" THEN value.text # ""
    ELSE value.type \notin {"null", "undefined"}

\* The statements of the try block after the body is parsed (app.js:36-40)
\* on the parsed body r and the view v: render on a truthy success, alert the
\* error otherwise.  The result is the view, whether the results region was
\* shown, the effects performed, and the message of the error thrown by
\* reading result.success, inside displayResults or by the concatenation of
\* the alert's message ("" for none).
tryBlock(r, v) ==
    IF r.type \in {"null", "undefined"}
    THEN [view |-> v, shown |-> FALSE, effects |-> << >>,
          error |-> TypeErrorMessage(r.type, "success")]
    ELSE IF Truthy(Get(r, "success"))
    THEN [effects |-> <<Effect("displayResults")>>]
         @@ displayResults(Get(r, "predictions"), v)
    ELSE IF ~Converts(Get(r, "error"))
    THEN [view |-> v, shown |-> FALSE, effects |-> << >>, error |-> ConvertError]
    ELSE [view |-> v, shown |-> FALSE,
          effects |-> <<alert("Error: ", String(Get(r, "error")))>>,
          error |-> ""]

\* The catch clause (app.js:41-42) after a try block that threw the error
\* with this message ("" for none).
catch(message) ==
    IF message = "" THEN << >>
    ELSE <<alert("Failed to get predictions: ", message)>>

\* The body handled with the loading indicator hidden after a rendering
\* instead of in a finally clause: a plausible slip.
JsonResolvesHideOnSuccess(i, r) ==
    /\ ~reloaded
    /\ lastTask' = "json settled"
    /\ i \in DOMAIN subs
    /\ subs[i].pc = "json"
    /\ \E out \in {tryBlock(r, view)} :
           /\ view' = out.view
           /\ results' = IF out.shown THEN "block" ELSE results
           /\ scrolledTo' = IF out.shown THEN "results" ELSE scrolledTo
           /\ loading' = IF out.shown THEN "none" ELSE loading
           /\ subs' = [subs EXCEPT ![i] =
                         Completed(@, [kind |-> "parsed", body |-> r],
                                   out.effects \o catch(out.error)
                                   \o (IF out.shown THEN <<Effect("hideLoading")>>
                                       ELSE << >>))]
    /\ UNCHANGED <<form, reloaded>>

\* response.json() of submission i resolves with the parsed body r: the rest
\* of the try block runs, an error it throws is caught and alerted, then the
\* finally clause hides the loading indicator (app.js:34-45).  alert()
\* blocks the event loop, so nothing runs between the alert and the finally
\* clause.
JsonResolves(i, r) ==
    /\ ~reloaded
    /\ lastTask' = "json settled"
    /\ i \in DOMAIN subs
    /\ subs[i].pc = "json"
    /\ \E out \in {tryBlock(r, view)} :
           /\ view' = out.view
           /\ results' = IF out.shown THEN "block" ELSE results
           /\ scrolledTo' = IF out.shown THEN "results" ELSE scrolledTo
           /\ subs' = [subs EXCEPT ![i] =
                         Completed(@, [kind |-> "parsed", body |-> r],
                                   out.effects \o catch(out.error)
                                   \o <<Effect("hideLoading")>>)]
    /\ loading' = "none"
    /\ UNCHANGED <<form, reloaded>>

(* ------------------------------ reset, input ---------------------------- *)

\* A reset that restores the fields and leaves the results shown: a
\* plausible slip.
resetFormFieldsOnly ==
    /\ ~reloaded
    /\ lastTask' = "reset"
    /\ form' = FormDefaults
    /\ UNCHANGED <<results, loading, view, scrolledTo, subs, reloaded>>

\* resetForm() (app.js:77-80).
resetForm ==
    /\ ~reloaded
    /\ lastTask' = "reset"
    /\ form' = FormDefaults
    /\ results' = "none"
    /\ UNCHANGED <<loading, view, scrolledTo, subs, reloaded>>

\* The user changes the value of one form control.
EditField(name, value) ==
    /\ ~reloaded
    /\ lastTask' = "input"
    /\ form[name] # value
    /\ form' = [form EXCEPT ![name] = value]
    /\ UNCHANGED <<loading, results, view, scrolledTo, subs, reloaded>>

(* --------------------------- specifications ---------------------------- *)

Next ==
    \/ Submit
    \/ \E i \in 1..MaxSubmissions, m \in FetchErrors : FetchRejects(i, m)
    \/ \E i \in 1..MaxSubmissions : FetchResolves(i)
    \/ \E i \in 1..MaxSubmissions, m \in ParseErrors : JsonRejects(i, m)
    \/ \E i \in 1..MaxSubmissions, r \in Results : JsonResolves(i, r)
    \/ resetForm
    \/ \E name \in FieldNames, value \in UserInputs : EditField(name, value)

Spec == Init /\ [][Next]_vars

\* The payload construction on arbitrary field texts: one submit event on
\* each form.
NextPayload == subs = << >> /\ Submit

SpecPayload == InitPayload /\ [][NextPayload]_vars

(* ------------------------------ properties ------------------------------ *)

Done(i) == subs[i].pc = "done"

\* Submission i finishes its handling in this step.
Completes(i) == subs[i].pc # "done" /\ subs'[i].pc = "done"

\* How often the handler of a submission record performed the effect op.
Count(sub, op) == Cardinality({k \in DOMAIN sub.trace : sub.trace[k].op = op})

\* The position of the first effect op in a trace (0 when absent).
FirstAt(trace, op) ==
    IF \E k \in DOMAIN trace : trace[k].op = op
    THEN CHOOSE k \in DOMAIN trace :
            /\ trace[k].op = op
            /\ \A j \in 1..(k - 1) : trace[j].op # op
    ELSE 0

\* The values the language treats as false in a condition.
Falsy == {Bool(FALSE), Num(0), Str(""), JSNull, Undefined}

\* The handler finished on a parsed body whose success is truthy.
SuccessBody(sub) ==
    /\ sub.pc = "done"
    /\ sub.result.kind = "parsed"
    /\ sub.result.body.type = "object"
    /\ "success" \in DOMAIN sub.result.body.props
    /\ sub.result.body.props.success \notin Falsy

\* The predictions have tips, a sequence of strings.
TextTips(p) ==
    /\ p.type = "object"
    /\ "yield_optimization_tips" \in DOMAIN p.props
    /\ p.props.yield_optimization_tips.type = "array"
    /\ \A k \in DOMAIN p.props.yield_optimization_tips.items :
          p.props.yield_optimization_tips.items[k].type = "string"

\* The predictions have the three numbers, the two recommendations as
\* strings and the tips as a sequence of strings.
Complete(p) ==
    /\ p.type = "object"
    /\ {"water_requirement_mm_per_day", "fertilizer_requirement_kg_per_week",
        "expected_yield_kg_per_hectare", "irrigation_recommendation",
        "fertilizer_recommendation", "yield_optimization_tips"}
          \subseteq DOMAIN p.props
    /\ p.props.water_requirement_mm_per_day.type = "number"
    /\ p.props.fertilizer_requirement_kg_per_week.type = "number"
    /\ p.props.expected_yield_kg_per_hectare.type = "number"
    /\ p.props.irrigation_recommendation.type = "string"
    /\ p.props.fertilizer_recommendation.type = "string"
    /\ p.props.yield_optimization_tips.type = "array"
    /\ \A k \in DOMAIN p.props.yield_optimization_tips.items :
          p.props.yield_optimization_tips.items[k].type = "string"

\* The handler finished on a truthy success with complete predictions.
Rendered(sub) ==
    /\ SuccessBody(sub)
    /\ "predictions" \in DOMAIN sub.result.body.props
    /\ Complete(sub.result.body.props.predictions)

\* The tips of the predictions a handler finished on.
TipsOf(sub) == sub.result.body.props.predictions.props.yield_optimization_tips.items

\* The handler finished on a parsed object whose success is falsy.
ServerFailed(sub) ==
    /\ sub.pc = "done"
    /\ sub.result.kind = "parsed"
    /\ sub.result.body.type = "object"
    /\ ("success" \in DOMAIN sub.result.body.props
           => sub.result.body.props.success \in Falsy)

CallFailed(sub) ==
    sub.pc = "done" /\ sub.result.kind \in {"rejected", "unparsable"}

\* C1: whenever the handling of a submission completes, whatever the
\* outcome, the loading indicator is hidden in the resulting state, and
\* hiding it is the last effect of the handler.
C1_LoadingHiddenOnCompletion ==
    [][\A i \in DOMAIN subs :
          Completes(i) =>
             /\ loading' = "none"
             /\ subs'[i].trace[Len(subs'[i].trace)].op = "hideLoading"]_vars

\* Two submissions have completed, one with a server-reported failure and
\* one with a failed call, and the indicator is hidden.
C1_Witness ==
    /\ loading = "none"
    /\ \E i, j \in DOMAIN subs : ServerFailed(subs[i]) /\ CallFailed(subs[j])

\* C2 (as claimed): when a submission completes on an object whose success
\* is falsy, its handler has raised exactly one alert, carrying the body's
\* error text, has not rendered, and the results region is hidden.
C2_ServerFailureAsClaimed ==
    [][\A i \in DOMAIN subs :
          (Completes(i) /\ ServerFailed(subs'[i])) =>
             /\ Count(subs'[i], "alert") = 1
             /\ \E k \in DOMAIN subs'[i].trace :
                   /\ subs'[i].trace[k].op = "alert"
                   /\ ("error" \in DOMAIN subs'[i].result.body.props
                       /\ subs'[i].result.body.props.error.type = "string") =>
                         subs'[i].trace[k].message[2] =
                            subs'[i].result.body.props.error.text
             /\ Count(subs'[i], "displayResults") = 0
             /\ results' = "none"]_vars

\* C3 (as claimed): when a submission completes on a rejected fetch or an
\* unparsable body, its handler has raised an alert made of the generic
\* prefix and the error's description, and the results region is hidden.
C3_CallFailureAsClaimed ==
    [][\A i \in DOMAIN subs :
          (Completes(i) /\ CallFailed(subs'[i])) =>
             /\ \E k \in DOMAIN subs'[i].trace :
                   /\ subs'[i].trace[k].op = "alert"
                   /\ subs'[i].trace[k].message =
                         <<"Failed to get predictions: ", subs'[i].result.message>>
             /\ results' = "none"]_vars

\* C4 (as claimed): when a submission completes on a body whose success is
\* truthy, the results region is visible and the tips list holds exactly one
\* item per tip of that body, in order and with the tip's text.
C4_AnySuccessAsClaimed ==
    [][\A i \in DOMAIN subs :
          (Completes(i) /\ SuccessBody(subs'[i])) =>
             /\ results' = "block"
             /\ ("predictions" \in DOMAIN subs'[i].result.body.props
                 /\ TextTips(subs'[i].result.body.props.predictions)) =>
                   /\ Len(view'.tipsList) = Len(TipsOf(subs'[i]))
                   /\ \A k \in 1..Len(TipsOf(subs'[i])) :
                         view'.tipsList[k].textContent =
                            TipsOf(subs'[i])[k].text]_vars

\* C4 (amended): when a submission completes on a successful response whose
\* predictions hold the three numbers, the two recommendations as strings
\* and the tips as a sequence of strings, the tips list holds exactly one
\* item per tip of that response, in order and with the tip's text, whatever
\* it held before, and the results region is visible.
C4_TipsReplaced ==
    [][\A i \in DOMAIN subs :
          (Completes(i) /\ Rendered(subs'[i])) =>
             /\ Len(view'.tipsList) = Len(TipsOf(subs'[i]))
             /\ \A k \in 1..Len(TipsOf(subs'[i])) :
                   /\ view'.tipsList[k].tag = "li"
                   /\ view'.tipsList[k].textContent = TipsOf(subs'[i])[k].text
             /\ results' = "block"]_vars

\* Two successful responses with different tips have been rendered, and the
\* list shows the shorter one's tips: the longer list was cleared.
C4_Witness ==
    \E i, j \in DOMAIN subs :
        /\ Rendered(subs[i]) /\ Rendered(subs[j])
        /\ Len(TipsOf(subs[i])) > Len(TipsOf(subs[j]))
        /\ Len(view.tipsList) = Len(TipsOf(subs[j]))
        /\ Len(TipsOf(subs[j])) > 0
        /\ results = "block"

\* The decimal literals of the language, stated as a grammar rather than as
\* a scanner: p is sign, integer digits, fraction, exponent, with at least
\* one digit before the exponent.  LiteralValues(p) holds the value of p
\* when p is such a literal and is empty otherwise.
AllDigits(s) == \A k \in DOMAIN s : s[k] \in Digits

IsFraction(f) == f = << >> \/ (Head(f) = "." /\ AllDigits(Tail(f)))

IsExponent(x) ==
    \/ x = << >>
    \/ /\ Len(x) >= 2
       /\ x[1] \in {"e", "E"}
       /\ LET d == IF x[2] \in {"+", "-"} THEN Drop(x, 2) ELSE Drop(x, 1)
          IN  d # << >> /\ AllDigits(d)

ExponentValue(x) ==
    IF x = << >> THEN 0
    ELSE IF x[2] = "-" THEN 0 - DigitsValue(Drop(x, 2))
    ELSE IF x[2] = "+" THEN DigitsValue(Drop(x, 2))
    ELSE DigitsValue(Drop(x, 1))

LiteralValues(p) ==
    { DecimalToDouble(a = 1 /\ p[1] = "-",
                      DigitsValue(SubSeq(p, a + 1, b) \o SubSeq(p, b + 2, c)),
                      ExponentValue(Drop(p, c)) - Len(SubSeq(p, b + 2, c))) :
        <<a, b, c>> \in
          { t \in (0..1) \X (0..Len(p)) \X (0..Len(p)) :
              /\ t[1] <= t[2] /\ t[2] <= t[3]
              /\ t[1] = 1 => p[1] \in {"+", "-"}
              /\ AllDigits(SubSeq(p, t[1] + 1, t[2]))
              /\ IsFraction(SubSeq(p, t[2] + 1, t[3]))
              /\ IsExponent(Drop(p, t[3]))
              /\ (t[2] - t[1]) + Len(SubSeq(p, t[2] + 2, t[3])) >= 1 } }
    \cup { Infinity(sg = <<"-">>) :
             sg \in {g \in {<< >>, <<"+">>, <<"-">>} :
                        p = g \o <<"I", "n", "f", "i", "n", "i", "t", "y">>} }

\* The number a field text stands for: the value of the longest literal that
\* starts the text after its leading white space, NaN when there is none.
NumericParse(s) ==
    LET w == CHOOSE k \in 0..Len(s) :
                /\ \A j \in 1..k : s[j] \in WhiteSpace
                /\ k < Len(s) => s[k + 1] \notin WhiteSpace
        t == Drop(s, w)
        L == {n \in 1..Len(t) : LiteralValues(SubSeq(t, 1, n)) # {}}
    IN  IF L = {} THEN NaN
        ELSE CHOOSE v \in LiteralValues(SubSeq(t, 1,
                             CHOOSE n \in L : \A k \in L : k <= n)) : TRUE

\* C5: the payload of a submission has one member per form field; a field
\* named region, crop_type, irrigation_type, fertilizer_type or
\* crop_disease_status keeps its string value, every other field holds the
\* numeric parse of its value; a value that is no number gives NaN, and the
\* POST is issued all the same.
C5_PayloadCoercion ==
    \A i \in DOMAIN subs :
        subs[i].pc = "fetch" =>
          /\ DOMAIN subs[i].data = FieldNames
          /\ \A k \in FieldNames :
                subs[i].data[k] =
                   IF k \in {"region", "crop_type", "irrigation_type",
                             "fertilizer_type", "crop_disease_status"}
                   THEN [type |-> "string", str |-> form[k]]
                   ELSE NumericParse(form[k])
          /\ subs[i].request.method = "POST"
          /\ subs[i].request.url = "/api/predict"
          /\ Count(subs[i], "alert") = 0

\* A submission of a form whose numeric field holds "x1" and whose text field
\* holds "1": the payload has NaN and the string "1", and the POST is in
\* flight.
C5_Witness ==
    /\ form["soil_ph"] = <<"x", "1">>
    /\ form["region"] = <<"1">>
    /\ \E i \in DOMAIN subs :
          /\ subs[i].pc = "fetch"
          /\ subs[i].data["soil_ph"] = NaN
          /\ subs[i].data["region"] = JSString(<<"1">>)
          /\ subs[i].request.method = "POST"

\* C6: a reset, in whatever state it is invoked, sets every field to its
\* default and hides the results region; it issues no request and leaves the
\* loading indicator and every submission, in flight or finished, as it was.
C6_ResetFrame ==
    [][lastTask' = "reset" =>
          /\ \A k \in FieldNames : form'[k] = FormDefaults[k]
          /\ results' = "none"
          /\ loading' = loading
          /\ subs' = subs
          /\ view' = view]_vars

\* A reset ran while one submission was in flight and after another had
\* been rendered: the fields are at their defaults, the results are hidden
\* and the indicator is still shown.
C6_Witness ==
    /\ lastTask = "reset"
    /\ form = FormDefaults
    /\ results = "none"
    /\ loading = "block"
    /\ \E i, j \in DOMAIN subs : Rendered(subs[i]) /\ subs[j].pc = "fetch"

\* C7: the native submission never happens, and every handler suppresses the
\* event's default action before it builds the payload, touches the DOM or
\* issues the POST.
C7_DefaultSuppressedFirst ==
    /\ ~reloaded
    /\ \A i \in DOMAIN subs :
          LET tr == subs[i].trace
          IN  /\ tr[1].op = "preventDefault"
              /\ \A op \in {"buildPayload", "showLoading", "hideResults", "fetch"} :
                    FirstAt(tr, "preventDefault") < FirstAt(tr, op)

\* Submissions of every outcome have been handled and the page was not
\* reloaded.
C7_Witness ==
    /\ ~reloaded
    /\ \E i, j \in DOMAIN subs : Rendered(subs[i]) /\ CallFailed(subs[j])

\* C8: a handler renders at most once, and only on a parsed body whose
\* success is truthy; after a falsy success or a failed call it has not
\* rendered.
C8_RenderOnlyOnSuccess ==
    \A i \in DOMAIN subs :
        /\ Count(subs[i], "displayResults") <= 1
        /\ Count(subs[i], "displayResults") = 1 <=> SuccessBody(subs[i])

\* One submission has rendered and another has failed without rendering.
C8_Witness ==
    \E i, j \in DOMAIN subs :
        /\ Rendered(subs[i]) /\ Count(subs[i], "displayResults") = 1
        /\ ServerFailed(subs[j]) /\ Count(subs[j], "displayResults") = 0

\* C9: while a submission awaits its response a further submit event is
\* accepted at once, and every pending submission can be the next one whose
\* response is handled, whatever the order of the submissions.
C9_NoInFlightGuard ==
    /\ ((\E i \in DOMAIN subs : ~Done(i)) /\ Len(subs) < MaxSubmissions)
          => ENABLED Submit
    /\ \A i \in DOMAIN subs :
          /\ subs[i].pc = "fetch" =>
                /\ ENABLED FetchResolves(i)
                /\ \A m \in FetchErrors : ENABLED FetchRejects(i, m)
          /\ subs[i].pc = "json" =>
                /\ ENABLED (\E r \in Results : JsonResolves(i, r))
                /\ \A m \in ParseErrors : ENABLED JsonRejects(i, m)

\* Two requests are in flight at the same time.
C9_Witness ==
    \E i, j \in DOMAIN subs :
        /\ i # j
        /\ subs[i].pc = "fetch" /\ subs[j].pc = "fetch"
        /\ subs[i].request.method = "POST" /\ subs[j].request.method = "POST"

\* C10: once a submission has been made, a visible loading indicator means
\* that some submission has not finished its handling.
C10_LoadingImpliesPending ==
    (Len(subs) > 0 /\ loading = "block") => \E i \in DOMAIN subs : ~Done(i)

\* The indicator is shown while one submission is pending, another has
\* finished and a reset has run.
C10_Witness ==
    /\ loading = "block"
    /\ lastTask = "reset"
    /\ \E i, j \in DOMAIN subs : Done(i) /\ ~Done(j)

====
